---- MODULE Spec2Model ----
(***************************************************************************)
(* JSON-schema walker of pydantic_ai/profiles/_json_schema.py and the      *)
(* OpenAI strict-mode transformer of pydantic_ai/profiles/openai.py.       *)
(*                                                                         *)
(* Python dicts are mutable objects that the walker updates in place and   *)
(* shares between parents, so schemas live in a heap: a sequence of nodes, *)
(* a node's identity being its index.  A node records which keys it has    *)
(* (k) and the values of the keys the code reads.  Lists and the dicts     *)
(* under properties / patternProperties / $defs are never updated in place *)
(* by the code (always replaced by a fresh one), so they are values here.  *)
(***************************************************************************)
EXTENDS Integers, Sequences, FiniteSets, TLC

\* Depth at which the interpreter raises RecursionError (stands for
\* sys.getrecursionlimit(); deeper than any walk of an acyclic input here).
RecursionLimit == 7
\* Number of walks a caller chains (walk, then walk again over the result).
MaxWalks == 2

\* ------------------------------------------------------------------------
\* Schema nodes
\* ------------------------------------------------------------------------

\* The dict {} : no key present, every value at its placeholder.
EmptyNode ==
  [k |-> {}, type |-> "", ref |-> "", title |-> "", description |-> "",
   default |-> "", nullable |-> FALSE, required |-> <<>>, kw |-> {},
   properties |-> <<>>, patternProperties |-> <<>>, defs |-> <<>>,
   addlBool |-> "", addl |-> <<>>, items |-> <<>>, prefixItems |-> <<>>,
   anyOf |-> <<>>, oneOf |-> <<>>]

Has(n, key) == key \in n.k

\* schema[key] = value, for each kind of key
SetType(n, t) == [n EXCEPT !.k = @ \cup {"type"}, !.type = t]
SetRef(n, r) == [n EXCEPT !.k = @ \cup {"$ref"}, !.ref = r]
SetTitle(n, t) == [n EXCEPT !.k = @ \cup {"title"}, !.title = t]
SetDescription(n, d) == [n EXCEPT !.k = @ \cup {"description"}, !.description = d]
SetDefault(n, d) == [n EXCEPT !.k = @ \cup {"default"}, !.default = d]
SetNullable(n, b) == [n EXCEPT !.k = @ \cup {"nullable"}, !.nullable = b]
SetRequired(n, r) == [n EXCEPT !.k = @ \cup {"required"}, !.required = r]
SetProperties(n, p) == [n EXCEPT !.k = @ \cup {"properties"}, !.properties = p]
SetPatternProperties(n, p) ==
  [n EXCEPT !.k = @ \cup {"patternProperties"}, !.patternProperties = p]
SetDefs(n, d) == [n EXCEPT !.k = @ \cup {"$defs"}, !.defs = d]
SetAddlBool(n, b) ==
  [n EXCEPT !.k = @ \cup {"additionalProperties"},
            !.addlBool = IF b THEN "true" ELSE "false", !.addl = <<>>]
SetAddl(n, c) ==
  [n EXCEPT !.k = @ \cup {"additionalProperties"}, !.addlBool = "", !.addl = <<c>>]
SetItems(n, c) == [n EXCEPT !.k = @ \cup {"items"}, !.items = <<c>>]
SetPrefixItems(n, s) == [n EXCEPT !.k = @ \cup {"prefixItems"}, !.prefixItems = s]
SetAnyOf(n, s) == [n EXCEPT !.k = @ \cup {"anyOf"}, !.anyOf = s]
SetOneOf(n, s) == [n EXCEPT !.k = @ \cup {"oneOf"}, !.oneOf = s]
SetKw(n, key, v) ==
  [n EXCEPT !.k = @ \cup {key}, !.kw = {p \in @ : p[1] # key} \cup {<<key, v>>}]
SetFlag(n, key) == [n EXCEPT !.k = @ \cup {key}]

\* del schema[key] / schema.pop(key, None): the value returns to its placeholder
Del(n, key) ==
  LET m == [n EXCEPT !.k = @ \ {key}] IN
  CASE key = "type" -> [m EXCEPT !.type = ""]
    [] key = "$ref" -> [m EXCEPT !.ref = ""]
    [] key = "title" -> [m EXCEPT !.title = ""]
    [] key = "description" -> [m EXCEPT !.description = ""]
    [] key = "default" -> [m EXCEPT !.default = ""]
    [] key = "nullable" -> [m EXCEPT !.nullable = FALSE]
    [] key = "required" -> [m EXCEPT !.required = <<>>]
    [] key = "properties" -> [m EXCEPT !.properties = <<>>]
    [] key = "patternProperties" -> [m EXCEPT !.patternProperties = <<>>]
    [] key = "$defs" -> [m EXCEPT !.defs = <<>>]
    [] key = "additionalProperties" -> [m EXCEPT !.addlBool = "", !.addl = <<>>]
    [] key = "items" -> [m EXCEPT !.items = <<>>]
    [] key = "prefixItems" -> [m EXCEPT !.prefixItems = <<>>]
    [] key = "anyOf" -> [m EXCEPT !.anyOf = <<>>]
    [] key = "oneOf" -> [m EXCEPT !.oneOf = <<>>]
    [] OTHER -> [m EXCEPT !.kw = {p \in @ : p[1] # key}]

\* value of a keyword kept in kw
KwValue(n, key) == (CHOOSE p \in n.kw : p[1] = key)[2]

\* dict.update(other): every key of other, with its value, onto n
Update(n, o) ==
  [k |-> n.k \cup o.k,
   type |-> IF Has(o, "type") THEN o.type ELSE n.type,
   ref |-> IF Has(o, "$ref") THEN o.ref ELSE n.ref,
   title |-> IF Has(o, "title") THEN o.title ELSE n.title,
   description |-> IF Has(o, "description") THEN o.description ELSE n.description,
   default |-> IF Has(o, "default") THEN o.default ELSE n.default,
   nullable |-> IF Has(o, "nullable") THEN o.nullable ELSE n.nullable,
   required |-> IF Has(o, "required") THEN o.required ELSE n.required,
   kw |-> {p \in n.kw : p[1] \notin o.k} \cup o.kw,
   properties |-> IF Has(o, "properties") THEN o.properties ELSE n.properties,
   patternProperties |-> IF Has(o, "patternProperties") THEN o.patternProperties
                         ELSE n.patternProperties,
   defs |-> IF Has(o, "$defs") THEN o.defs ELSE n.defs,
   addlBool |-> IF Has(o, "additionalProperties") THEN o.addlBool ELSE n.addlBool,
   addl |-> IF Has(o, "additionalProperties") THEN o.addl ELSE n.addl,
   items |-> IF Has(o, "items") THEN o.items ELSE n.items,
   prefixItems |-> IF Has(o, "prefixItems") THEN o.prefixItems ELSE n.prefixItems,
   anyOf |-> IF Has(o, "anyOf") THEN o.anyOf ELSE n.anyOf,
   oneOf |-> IF Has(o, "oneOf") THEN o.oneOf ELSE n.oneOf]

\* ------------------------------------------------------------------------
\* Sequence helpers
\* ------------------------------------------------------------------------
Range(s) == {s[i] : i \in DOMAIN s}
Values(pairs) == [i \in DOMAIN pairs |-> pairs[i][2]]
Names(pairs) == [i \in DOMAIN pairs |-> pairs[i][1]]
HasName(pairs, name) == \E i \in DOMAIN pairs : pairs[i][1] = name
Lookup(pairs, name) == pairs[CHOOSE i \in DOMAIN pairs : pairs[i][1] = name][2]
\* pairs[name] = v : replaces in place when the name is there, else appends
Put(pairs, name, v) ==
  IF HasName(pairs, name)
  THEN [i \in DOMAIN pairs |-> IF pairs[i][1] = name THEN <<name, v>> ELSE pairs[i]]
  ELSE Append(pairs, <<name, v>>)

\* every node id a node holds, in any position
Children(n) ==
  Range(Values(n.properties)) \cup Range(Values(n.patternProperties))
    \cup Range(Values(n.defs)) \cup Range(n.addl) \cup Range(n.items)
    \cup Range(n.prefixItems) \cup Range(n.anyOf) \cup Range(n.oneOf)

RECURSIVE ReachFrom(_, _, _)
ReachFrom(h, done, todo) ==
  IF todo = {} THEN done
  ELSE LET next == UNION {Children(h[i]) : i \in todo} IN
       ReachFrom(h, done \cup todo, next \ (done \cup todo))
\* the ids reachable from id in heap h (id included); finite even when h is cyclic
Reach(h, id) == ReachFrom(h, {}, {id})

\* ------------------------------------------------------------------------
\* Walker state
\* ------------------------------------------------------------------------
\* One transformer object while it runs (JsonSchemaTransformer.__init__):
\*   h      the heap; org[i] is the input node that heap node i is a copy of
\*   schema self.schema, defs self.defs (name -> node), cfg the options,
\*   stack  self.refs_stack, rec self.recursive_refs, compat is_strict_compatible
\*   err    the exception in flight ("" when none), depth the nesting of _handle
\*   hlog / tlog / fired: history of the _handle calls that returned, of the
\*   nodes passed to transform(), and of the rewrite rules that changed a node.
NoRef == <<>>

NewTransformer(h, org, schema, kind, strict, pid, snu) ==
  [h |-> h, org |-> org, schema |-> schema,
   cfg |-> [kind |-> kind, strict |-> strict, pid |-> pid, snu |-> snu,
            root_ref |-> IF kind = "openai" /\ Has(h[schema], "$ref")
                         THEN <<h[schema].ref>> ELSE NoRef],
   defs |-> IF Has(h[schema], "$defs") THEN h[schema].defs ELSE <<>>,
   stack |-> <<>>, rec |-> {}, compat |-> TRUE, err |-> "", depth |-> 0,
   hlog |-> <<>>, tlog |-> <<>>, fired |-> {}]

\* a new dict object; from is the node it copies (0: a node the code makes up)
Alloc(st, node, from) ==
  [st EXCEPT !.h = Append(@, node),
             !.org = Append(@, IF from = 0 THEN 0 ELSE st.org[from])]

Raise(st, e) == [st EXCEPT !.err = e]

PREFIX == "#/$defs/"

\* _fast_defs_ref_strip
_fast_defs_ref_strip(ref) ==
  IF Len(ref) >= Len(PREFIX) /\ SubSeq(ref, 1, Len(PREFIX)) = PREFIX
  THEN SubSeq(ref, Len(PREFIX) + 1, Len(ref))
  ELSE ref

\* copy.deepcopy(h[id]): fresh copies of everything reachable from id, sharing
\* between them kept as deepcopy's memo keeps it
Remap(n, f(_)) ==
  [n EXCEPT !.properties = [i \in DOMAIN @ |-> <<@[i][1], f(@[i][2])>>],
            !.patternProperties = [i \in DOMAIN @ |-> <<@[i][1], f(@[i][2])>>],
            !.defs = [i \in DOMAIN @ |-> <<@[i][1], f(@[i][2])>>],
            !.addl = [i \in DOMAIN @ |-> f(@[i])],
            !.items = [i \in DOMAIN @ |-> f(@[i])],
            !.prefixItems = [i \in DOMAIN @ |-> f(@[i])],
            !.anyOf = [i \in DOMAIN @ |-> f(@[i])],
            !.oneOf = [i \in DOMAIN @ |-> f(@[i])]]

deepcopy(st, id) ==
  LET R == Reach(st.h, id)
      base == Len(st.h)
      rank(i) == Cardinality({j \in R : j <= i})
      new(i) == base + rank(i)
      old(r) == CHOOSE i \in R : rank(i) = r
      fresh == [r \in 1..Cardinality(R) |-> Remap(st.h[old(r)], new)]
  IN [st |-> [st EXCEPT !.h = @ \o fresh,
                        !.org = @ \o [r \in 1..Cardinality(R) |-> st.org[old(r)]]],
      v |-> new(id)]

\* ------------------------------------------------------------------------
\* OpenAIJsonSchemaTransformer.transform
\* ------------------------------------------------------------------------
_STRICT_INCOMPATIBLE_KEYS ==
  <<"minLength", "maxLength", "pattern", "format", "minimum", "maximum",
    "multipleOf", "patternProperties", "unevaluatedProperties", "propertyNames",
    "minProperties", "maxProperties", "unevaluatedItems", "contains",
    "minContains", "maxContains", "minItems", "maxItems", "uniqueItems">>

RECURSIVE Join(_)
\* ', '.join(notes)
Join(notes) ==
  IF notes = <<>> THEN ""
  ELSE IF Len(notes) = 1 THEN notes[1]
  ELSE notes[1] \o ", " \o Join(Tail(notes))

\* str(value) of an incompatible key's value.  The text of a dict of schemas
\* (patternProperties) is not spelled out: it is the fixed text "{...}".
ValueText(n, key) == IF key = "patternProperties" THEN "{...}" ELSE KwValue(n, key)

\* Incompatible that does not report a default
IncompatibleButDefault(strict, hasDefault, has_incompat, hasOneOf, badShape) ==
  \/ strict = "None" /\ (has_incompat \/ badShape)
  \/ strict # "True" /\ hasOneOf

\* whether transform sets is_strict_compatible = False on a node: lines 101-102,
\* 132-133, 140-141 and 153-165
Incompatible(strict, hasDefault, has_incompat, hasOneOf, badShape) ==
  \/ strict = "None" /\ (hasDefault \/ has_incompat \/ badShape)
  \/ strict # "True" /\ hasOneOf

\* transform works on one dict: x.n is its content so far, x.st the walker
\* state, x.fired the rules that changed it, and the four flags are what the
\* strict=None branches look at
Begin(st, id) ==
  [st |-> st, id |-> id, n |-> st.h[id], fired |-> {}, hasDefault |-> FALSE,
   has_incompat |-> FALSE, hasOneOf |-> FALSE, badShape |-> FALSE]
Rewrite(x, rule, m) ==
  [x EXCEPT !.n = m, !.fired = IF m # x.n THEN @ \cup {rule} ELSE @]

\* openai.py:93-95
RemoveKeys(x) ==
  Rewrite(x, 1, Del(Del(Del(x.n, "title"), "$schema"), "discriminator"))

\* openai.py:97-102
RemoveDefault(x) ==
  [Rewrite(x, 2, IF Has(x.n, "default") /\ x.st.cfg.strict = "True"
                 THEN Del(x.n, "default") ELSE x.n)
     EXCEPT !.hasDefault = Has(x.n, "default")]

\* openai.py:104-107
RootRef(x) ==
  Rewrite(x, 3, IF Has(x.n, "$ref") /\ x.st.cfg.root_ref = <<x.n.ref>>
                THEN SetRef(x.n, "#") ELSE x.n)

\* openai.py:108-110
WrapRef(x) ==
  IF Has(x.n, "$ref") /\ Cardinality(x.n.k) > 1
  THEN [Rewrite(x, 3, SetAnyOf(Del(x.n, "$ref"), <<Len(x.st.h) + 1>>))
          EXCEPT !.st = Alloc(x.st, SetRef(EmptyNode, x.n.ref), 0)]
  ELSE x

RECURSIVE PopAll(_, _)
\* schema.pop(key) for each key, openai.py:127-128
PopAll(n, keys) == IF keys = <<>> THEN n ELSE PopAll(Del(n, Head(keys)), Tail(keys))

\* openai.py:129
Notes(n, keys) == [i \in DOMAIN keys |-> keys[i] \o "=" \o ValueText(n, keys[i])]

\* openai.py:122-133, for the keys found by 114-120
Annotate(x, incompatible) ==
  [Rewrite(x, 4,
           IF incompatible # <<>> /\ x.st.cfg.strict = "True"
           THEN SetDescription(PopAll(x.n, incompatible),
                  IF ~Has(x.n, "description") \/ x.n.description = ""
                  THEN Join(Notes(x.n, incompatible))
                  ELSE x.n.description \o " (" \o Join(Notes(x.n, incompatible)) \o ")")
           ELSE x.n)
     EXCEPT !.has_incompat = incompatible # <<>>]

\* openai.py:112-133
Keywords(x) ==
  Annotate(x, SelectSeq(_STRICT_INCOMPATIBLE_KEYS, LAMBDA key : Has(x.n, key)))

\* openai.py:135-141
OneOfToAnyOf(x) ==
  [Rewrite(x, 5, IF Has(x.n, "oneOf") /\ x.st.cfg.strict = "True"
                 THEN SetAnyOf(Del(x.n, "oneOf"), x.n.oneOf) ELSE x.n)
     EXCEPT !.hasOneOf = Has(x.n, "oneOf")]

\* openai.py:148-149
WithProperties(n) == IF Has(n, "properties") THEN n ELSE SetProperties(n, <<>>)
AllRequired(n) == SetRequired(n, Names(n.properties))

\* openai.py:153-165
BadShape(n) ==
  \/ ~(Has(n, "additionalProperties") /\ n.addlBool = "false")
  \/ ~Has(n, "properties")
  \/ ~Has(n, "required")
  \/ \E i \in DOMAIN n.properties : n.properties[i][1] \notin Range(n.required)

\* openai.py:143-165
ObjectShape(x) ==
  IF Has(x.n, "type") /\ x.n.type = "object"
  THEN [Rewrite(x, 6, IF x.st.cfg.strict = "True"
                      THEN AllRequired(WithProperties(SetAddlBool(x.n, FALSE)))
                      ELSE x.n)
          EXCEPT !.badShape = BadShape(x.n)]
  ELSE x

\* the dict is updated in place; fired also gets 7 for an object without the
\* shape lines 153-165 test for
Finish(x) ==
  [st |-> [x.st EXCEPT
             !.h[x.id] = x.n,
             !.compat = IF Incompatible(x.st.cfg.strict, x.hasDefault, x.has_incompat,
                                        x.hasOneOf, x.badShape)
                        THEN FALSE ELSE @,
             !.fired = @ \cup x.fired \cup (IF x.badShape THEN {7} ELSE {})],
   v |-> x.id]

\* openai.py:91-166
OpenAITransform(st, id) ==
  Finish(ObjectShape(OneOfToAnyOf(Keywords(WrapRef(RootRef(RemoveDefault(
    RemoveKeys(Begin(st, id)))))))))

\* InlineDefsJsonSchemaTransformer.transform, and the transform of a subclass
\* that only sets the walker's options
IdentityTransform(st, id) == [st |-> st, v |-> id]

\* Transform that leaves a schema holding an anyOf as it is
TransformButUnions(st, id) ==
  IF Has(st.h[id], "anyOf") THEN [st |-> st, v |-> id]
  ELSE LET r == IF st.cfg.kind = "openai" THEN OpenAITransform(st, id)
                ELSE IdentityTransform(st, id)
       IN [st |-> [r.st EXCEPT !.tlog = Append(@, id)], v |-> r.v]

\* self.transform(schema), _json_schema.py:111
Transform(st, id) ==
  LET r == IF st.cfg.kind = "openai" THEN OpenAITransform(st, id)
           ELSE IdentityTransform(st, id)
  IN [st |-> [r.st EXCEPT !.tlog = Append(@, id)], v |-> r.v]

\* ------------------------------------------------------------------------
\* JsonSchemaTransformer._handle and the shape handlers
\* ------------------------------------------------------------------------
InStack(key, stack) == key \in Range(stack)

RECURSIVE ResolveLenient(_, _, _)
\* Resolve that leaves a $ref without a definition in place instead of raising
ResolveLenient(st, id, n) ==
  LET node == st.h[id] IN
  IF ~(Has(node, "$ref") /\ node.ref # "")
  THEN [st |-> st, v |-> id, n |-> n, raised |-> FALSE]
  ELSE LET key == _fast_defs_ref_strip(node.ref) IN
       IF InStack(key, st.stack)
       THEN [st |-> [st EXCEPT !.rec = @ \cup {key}], v |-> id, n |-> n,
             raised |-> FALSE]
       ELSE IF ~HasName(st.defs, key)
       THEN [st |-> st, v |-> id, n |-> n, raised |-> FALSE]
       ELSE ResolveLenient([st EXCEPT !.stack = Append(@, key)],
                           Lookup(st.defs, key), n + 1)

RECURSIVE Resolve(_, _, _)
\* the while loop of _handle, lines 85-100: returns the node reached, the
\* number of names pushed, and the state
Resolve(st, id, n) ==
  LET node == st.h[id] IN
  IF ~(Has(node, "$ref") /\ node.ref # "")
  THEN [st |-> st, v |-> id, n |-> n, raised |-> FALSE]
  ELSE LET key == _fast_defs_ref_strip(node.ref) IN
       IF InStack(key, st.stack)
       THEN [st |-> [st EXCEPT !.rec = @ \cup {key}], v |-> id, n |-> n,
             raised |-> FALSE]
       ELSE LET pushed == [st EXCEPT !.stack = Append(@, key)] IN
            IF ~HasName(st.defs, key)
            THEN [st |-> Raise(pushed, "UserError"), v |-> id, n |-> n + 1,
                  raised |-> TRUE]
            ELSE Resolve(pushed, Lookup(st.defs, key), n + 1)

\* Unwind with the slice one short: del self.refs_stack[-(nested_refs - 1):]
UnwindOneShort(stack, n) ==
  IF n > 1 THEN SubSeq(stack, 1, Len(stack) - (n - 1)) ELSE stack

\* del self.refs_stack[-nested_refs:]
Unwind(stack, n) ==
  IF n > 0 THEN SubSeq(stack, 1, IF Len(stack) > n THEN Len(stack) - n ELSE 0)
  ELSE stack

\* {'type': 'null'}
IsNullSchema(n) == n = SetType(EmptyNode, "null")

\* lines 177-181: a deep copy of the non-null member, marked nullable
MarkNullable(c) ==
  [st |-> [c.st EXCEPT !.h[c.v] = SetNullable(@, TRUE)], v |-> <<c.v>>]

\* lines 173-184, others being the members that are not {'type': 'null'}
PickNonNull(st, cases, others) ==
  IF others # <<>> /\ st.h[others[1]].k # {}
  THEN MarkNullable(deepcopy(st, others[1]))
  ELSE [st |-> st, v |-> <<cases[1]>>]

\* _simplify_nullable_union, lines 169-186
_simplify_nullable_union(st, cases) ==
  IF Len(cases) = 2 /\ \E i \in 1..2 : IsNullSchema(st.h[cases[i]])
  THEN PickNonNull(st, cases, SelectSeq(cases, LAMBDA c : ~IsNullSchema(st.h[c])))
  ELSE [st |-> st, v |-> cases]

Zip(names, ids) == [i \in DOMAIN names |-> <<names[i], ids[i]>>]

RECURSIVE Handle(_, _), HandleFrom(_, _, _, _), Assigned(_, _, _)

\* What a call hands back: the state it leaves in st, the value it returns in
\* v, and in raised whether it ended by raising (st.err names the exception).
Result(st, v) == [st |-> st, v |-> v, raised |-> st.err # ""]

\* The statement schema[key] = [self._handle(x) for x in ids] of a handler
\* and the rest of the handler after it.  r is what the call for ids[1]
\* handed back, acc what the calls before it returned, and k names the
\* schema, the key assigned to and the names the handled values go under.
\* The loop stops at the first exception.
HandleFrom(r, ids, acc, k) ==
  CASE r.raised -> [st |-> r.st, v |-> k.id, raised |-> TRUE]
    [] ~r.raised /\ Len(ids) = 1 -> Assigned(k, r.st, Append(acc, r.v))
    [] OTHER -> HandleFrom(Handle(r.st, ids[2]), Tail(ids), Append(acc, r.v), k)

\* [self._handle(x) for x in ids], the handled values themselves
HandleSeq(st, ids) ==
  IF ids = <<>> THEN [st |-> st, v |-> <<>>, raised |-> FALSE]
  ELSE HandleFrom(Handle(st, Head(ids)), ids, <<>>,
                  [id |-> 0, key |-> "", names |-> <<>>])

\* schema[key] = handled, unless handling raised: the state after the store
StoreAddl(a, id) ==
  IF a.raised THEN a.st ELSE [a.st EXCEPT !.h[id] = SetAddl(@, a.v)]
StorePatternProperties(p, id, names) ==
  IF p.raised THEN p.st
  ELSE [p.st EXCEPT !.h[id] = SetPatternProperties(@, Zip(names, p.v))]
StoreItems(i, id) ==
  IF i.raised THEN i.st ELSE [i.st EXCEPT !.h[id] = SetItems(@, i.v)]

\* lines 125-129
ObjectAdditional(s, id) ==
  IF Has(s.h[id], "additionalProperties") /\ s.h[id].addlBool = ""
  THEN StoreAddl(Handle(s, s.h[id].addl[1]), id)
  ELSE s
\* lines 131-135
ObjectPattern(s, id) ==
  IF s.err = "" /\ Has(s.h[id], "patternProperties")
  THEN StorePatternProperties(HandleSeq(s, Values(s.h[id].patternProperties)), id,
                              Names(s.h[id].patternProperties))
  ELSE s
\* lines 125-137
ObjectRest(s, id) == Result(ObjectPattern(ObjectAdditional(s, id), id), id)

\* lines 118-137
_handle_object(st, id) ==
  IF Has(st.h[id], "properties") /\ st.h[id].properties # <<>>
  THEN HandleFrom(Handle(st, Head(Values(st.h[id].properties))),
                  Values(st.h[id].properties), <<>>,
                  [id |-> id, key |-> "properties",
                   names |-> Names(st.h[id].properties)])
  ELSE ObjectRest(st, id)

\* lines 143-146
ArrayItems(s, id) ==
  IF Has(s.h[id], "items") /\ s.h[s.h[id].items[1]].k # {}
  THEN Result(StoreItems(Handle(s, s.h[id].items[1]), id), id)
  ELSE [st |-> s, v |-> id, raised |-> FALSE]

\* lines 139-146
_handle_array(st, id) ==
  IF Has(st.h[id], "prefixItems") /\ st.h[id].prefixItems # <<>>
  THEN HandleFrom(Handle(st, Head(st.h[id].prefixItems)), st.h[id].prefixItems,
                  <<>>, [id |-> id, key |-> "prefixItems", names |-> <<>>])
  ELSE ArrayItems(st, id)

\* lines 163-166: a copy of the node with the handled members
UnionCopy(c) == [st |-> c, v |-> Len(c.h), raised |-> FALSE]
\* lines 159-166
UnionResult(s, id, union_kind) ==
  IF Len(s.v) = 1 THEN [st |-> s.st, v |-> s.v[1], raised |-> FALSE]
  ELSE UnionCopy(Alloc(s.st, IF union_kind = "anyOf" THEN SetAnyOf(s.st.h[id], s.v)
                             ELSE SetOneOf(s.st.h[id], s.v), id))
\* lines 156-166
UnionMembers(st, handled, id, union_kind) ==
  UnionResult(IF st.cfg.snu THEN _simplify_nullable_union(st, handled)
              ELSE [st |-> st, v |-> handled],
              id, union_kind)

\* what a handler does with the handled values: lines 123-137 for properties,
\* 141-146 for prefixItems, 156-166 for the members of a union
Assigned(k, st, handled) ==
  CASE k.key = "properties" ->
         ObjectRest([st EXCEPT !.h[k.id] = SetProperties(@, Zip(k.names, handled))],
                    k.id)
    [] k.key = "prefixItems" ->
         ArrayItems([st EXCEPT !.h[k.id] = SetPrefixItems(@, handled)], k.id)
    [] k.key \in {"anyOf", "oneOf"} -> UnionMembers(st, handled, k.id, k.key)
    [] OTHER -> [st |-> st, v |-> handled, raised |-> FALSE]

\* schema.get(union_kind)
MembersOf(n, union_kind) == IF union_kind = "anyOf" THEN n.anyOf ELSE n.oneOf

\* lines 148-166
_handle_union(st, id, union_kind) ==
  IF ~Has(st.h[id], union_kind) \/ MembersOf(st.h[id], union_kind) = <<>>
  THEN [st |-> st, v |-> id, raised |-> FALSE]
  ELSE HandleFrom(Handle(st, Head(MembersOf(st.h[id], union_kind))),
                  MembersOf(st.h[id], union_kind), <<>>,
                  [id |-> id, key |-> union_kind, names |-> <<>>])

\* lines 107-109
ThenOneOf(a) == IF a.raised THEN a ELSE _handle_union(a.st, a.v, "oneOf")

\* lines 102-109, r1 being the schema reached by the loop of lines 85-100
Dispatch(r1) ==
  CASE r1.raised -> [st |-> r1.st, v |-> r1.v, raised |-> TRUE]
    [] ~r1.raised /\ r1.st.h[r1.v].type = "object" -> _handle_object(r1.st, r1.v)
    [] ~r1.raised /\ r1.st.h[r1.v].type = "array" -> _handle_array(r1.st, r1.v)
    [] ~r1.raised /\ ~Has(r1.st.h[r1.v], "type") ->
         ThenOneOf(_handle_union(r1.st, r1.v, "anyOf"))
    [] OTHER -> [st |-> r1.st, v |-> r1.v, raised |-> FALSE]

\* lines 113-116: the stack is unwound and the call returns; the call is
\* recorded in hlog
Return(st, id, r1, r3) ==
  [st |-> [r3.st EXCEPT
             !.stack = Unwind(@, r1.n),
             !.depth = @ - 1,
             !.hlog = Append(@, [node |-> id, at |-> r1.v, entry |-> st.stack,
                                 exit |-> Unwind(r3.st.stack, r1.n),
                                 seen |-> r3.st.stack,
                                 out |-> r3.v])],
   v |-> r3.v, raised |-> FALSE]
\* line 111
Transformed(st, id, r1, r2) ==
  IF r2.raised THEN r2 ELSE Return(st, id, r1, Transform(r2.st, r2.v))
\* lines 102-116
Resolved(st, id, r1) == Transformed(st, id, r1, Dispatch(r1))
\* The call is entered, and with prefer_inlined_defs the loop of lines 85-100
\* runs.  A call nested deeper than the interpreter allows raises
\* RecursionError.
Entered(st, id) ==
  IF st.depth >= RecursionLimit
  THEN [st |-> Raise(st, "RecursionError"), v |-> id, n |-> 0, raised |-> TRUE]
  ELSE IF st.cfg.pid THEN Resolve([st EXCEPT !.depth = @ + 1], id, 0)
  ELSE [st |-> [st EXCEPT !.depth = @ + 1], v |-> id, n |-> 0, raised |-> FALSE]

\* lines 81-116
Handle(st, id) == Resolved(st, id, Entered(st, id))

\* ------------------------------------------------------------------------
\* walk()
\* ------------------------------------------------------------------------
RECURSIVE FreshRootKey(_, _)
\* while root_key in defs: root_key = f'{root_key}_root'
FreshRootKey(root_key, defs) ==
  IF HasName(defs, root_key) THEN FreshRootKey(root_key \o "_root", defs) ELSE root_key

\* lines 62-64: handled['$defs'] = the handled definitions
WithDefs(st, r, d) ==
  IF d.raised THEN [st |-> d.st, v |-> 0]
  ELSE [st |-> [d.st EXCEPT !.h[r.v] = SetDefs(@, Zip(Names(st.defs), d.v))],
        v |-> r.v]

\* lines 70-75
RootKey(orig_schema, defs) ==
  IF Has(orig_schema, "$ref") THEN _fast_defs_ref_strip(orig_schema.ref)
  ELSE FreshRootKey(IF Has(orig_schema, "title") THEN orig_schema.title ELSE "root",
                    defs)
\* line 69, keys being the recursive names in iteration order
RecursiveDefs(st, keys) == [i \in DOMAIN keys |-> <<keys[i], Lookup(st.defs, keys[i])>>]
\* lines 76-77
Wrapped(out) == [st |-> out, v |-> Len(out.h)]
Wrapper(r, defs, root_key) ==
  Wrapped(Alloc(r.st, SetRef(SetDefs(EmptyNode, Put(defs, root_key, r.v)),
                             PREFIX \o root_key), 0))
\* lines 67-77
KeepRecursive(st, r, defs) == Wrapper(r, defs, RootKey(r.st.h[st.schema], defs))

\* lines 58-79, r being what _handle returned for the root
AfterRoot(st, order, r) ==
  IF r.raised THEN [st |-> r.st, v |-> 0]
  ELSE IF ~st.cfg.pid /\ st.defs # <<>>
  THEN WithDefs(st, r, HandleSeq(r.st, Values(st.defs)))
  ELSE IF r.st.rec # {}
  THEN KeepRecursive(st, r,
         RecursiveDefs(st, SelectSeq(order, LAMBDA key : key \in r.st.rec)))
  ELSE r

\* JsonSchemaTransformer.walk, lines 45-79.  order is the order in which the
\* iteration over the set self.recursive_refs yields the names (line 69).
walk(st, order) ==
  AfterRoot(st, order,
            Handle(Alloc(st, Del(st.h[st.schema], "$defs"), st.schema), Len(st.h) + 1))

\* OpenAIWalk without lines 84-87
OpenAIWalkAsBase(st, order) == walk(st, order)

\* openai.py:87
Merge(st, popped, v, root_key) ==
  [st |-> [popped EXCEPT !.h[v] =
             Update(@, IF HasName(st.defs, root_key)
                       THEN popped.h[Lookup(st.defs, root_key)] ELSE EmptyNode)],
   v |-> v]
\* openai.py:85-87
Unpack(st, r, root_key) ==
  Merge(st, [r.st EXCEPT !.h[r.v] = Del(@, "$ref")], r.v, root_key)
\* openai.py:82-89
Unpacked(st, r) ==
  IF r.st.err # "" \/ st.cfg.root_ref = NoRef THEN r
  ELSE Unpack(st, r, _fast_defs_ref_strip(st.cfg.root_ref[1]))

\* OpenAIJsonSchemaTransformer.walk, openai.py:76-89
OpenAIWalk(st, order) == Unpacked(st, walk(st, order))

\* the walk() of the transformer's class
WalkOf(st, order) ==
  IF st.cfg.kind = "openai" THEN OpenAIWalk(st, order) ELSE walk(st, order)

\* ------------------------------------------------------------------------
\* Input documents
\* ------------------------------------------------------------------------
\* Documents are written as trees (a child position holds the child itself)
\* and loaded into a heap, children before their parent, the root last.
RECURSIVE Concat(_)
Concat(segs) == IF segs = <<>> THEN <<>> ELSE Head(segs) \o Concat(Tail(segs))
RECURSIVE Load(_), LoadAll(_)
LoadAll(ts) == IF ts = <<>> THEN <<>> ELSE <<Load(Head(ts))>> \o LoadAll(Tail(ts))
Load(t) ==
  LET kids == Values(t.properties) \o Values(t.patternProperties) \o Values(t.defs)
                \o t.addl \o t.items \o t.prefixItems \o t.anyOf \o t.oneOf
      segs == LoadAll(kids)
      off == [i \in DOMAIN kids |-> Len(Concat(SubSeq(segs, 1, i - 1)))]
      moved == [i \in DOMAIN kids |->
                  [j \in DOMAIN segs[i] |-> Remap(segs[i][j], LAMBDA c : c + off[i])]]
      id == [i \in DOMAIN kids |-> off[i] + Len(segs[i])]
      \* the ids of the children that sit at positions from+1 .. from+n of kids
      part(from, n) == [i \in 1..n |-> id[from + i]]
      n1 == Len(t.properties)
      n2 == n1 + Len(t.patternProperties)
      n3 == n2 + Len(t.defs)
      n4 == n3 + Len(t.addl)
      n5 == n4 + Len(t.items)
      n6 == n5 + Len(t.prefixItems)
      n7 == n6 + Len(t.anyOf)
      node == [t EXCEPT
                 !.properties = Zip(Names(t.properties), part(0, n1)),
                 !.patternProperties = Zip(Names(t.patternProperties), part(n1, n2 - n1)),
                 !.defs = Zip(Names(t.defs), part(n2, n3 - n2)),
                 !.addl = part(n3, n4 - n3), !.items = part(n4, n5 - n4),
                 !.prefixItems = part(n5, n6 - n5), !.anyOf = part(n6, n7 - n6),
                 !.oneOf = part(n7, Len(t.oneOf))]
  IN Append(Concat(moved), node)

Ref(name) == SetRef(EmptyNode, PREFIX \o name)
Typed(t) == SetType(EmptyNode, t)
Object(props) == SetProperties(Typed("object"), props)
Array(item) == SetItems(Typed("array"), item)
AnyOf(members) == SetAnyOf(EmptyNode, members)
OneOf(members) == SetOneOf(EmptyNode, members)
\* a document: the root's own keys plus $defs (no $defs key when there is none)
Document(root, defs) == IF defs = <<>> THEN root ELSE SetDefs(root, defs)

\* ------------------------------------------------------------------------
\* The transformer as a state machine
\* ------------------------------------------------------------------------
VARIABLES
  heap,                 \* every dict object, by identity
  org,                  \* org[i]: the node of the walked document that i copies
  schema,               \* self.schema
  options,              \* class, strict, prefer_inlined_defs, simplify_nullable_unions, root_ref
  defs,                 \* self.defs
  refs_stack,           \* self.refs_stack
  recursive_refs,       \* self.recursive_refs
  is_strict_compatible, \* self.is_strict_compatible
  pc,                   \* "constructed", "returned" or "raised"
  error,                \* the exception walk() raised, "" when none
  result,               \* the dict walk() returned
  walks,                \* number of walk() calls so far
  hlog, tlog, fired,    \* history of the last walk
  input,                \* the heap and document the transformer was constructed on
  document              \* the heap and document the first transformer was given

vars == <<heap, org, schema, options, defs, refs_stack, recursive_refs,
          is_strict_compatible, pc, error, result, walks, hlog, tlog, fired, input,
          document>>

\* the transformer object, as the operators above take it
Self ==
  [h |-> heap, org |-> org, schema |-> schema, cfg |-> options, defs |-> defs,
   stack |-> refs_stack, rec |-> recursive_refs, compat |-> is_strict_compatible,
   err |-> error, depth |-> 0, hlog |-> hlog, tlog |-> tlog, fired |-> fired]

Identity(h) == [i \in DOMAIN h |-> i]

\* __init__ over the document h[root]
Constructed(h, root, kind, strict, pid, snu) ==
  LET t == NewTransformer(h, Identity(h), root, kind, strict, pid, snu) IN
  /\ heap = t.h /\ org = t.org /\ schema = t.schema /\ options = t.cfg
  /\ defs = t.defs /\ refs_stack = t.stack /\ recursive_refs = t.rec
  /\ is_strict_compatible = t.compat /\ error = t.err
  /\ hlog = t.hlog /\ tlog = t.tlog /\ fired = t.fired
  /\ input = [h |-> h, schema |-> root]

Orderings(S) ==
  {f \in [1..Cardinality(S) -> S] : \A i, j \in DOMAIN f : f[i] = f[j] => i = j}

\* the orders in which iterating self.recursive_refs may yield its names
Orders == IF options.pid THEN Orderings(Range(Names(defs))) ELSE {<<>>}

\* walk() ends: r is the schema it returns, or the state in which it raises
Ends(r) ==
  /\ heap' = r.st.h /\ org' = r.st.org
  /\ refs_stack' = r.st.stack /\ recursive_refs' = r.st.rec
  /\ is_strict_compatible' = r.st.compat
  /\ hlog' = r.st.hlog /\ tlog' = r.st.tlog /\ fired' = r.st.fired
  /\ error' = r.st.err
  /\ pc' = IF r.st.err = "" THEN "returned" ELSE "raised"
  /\ result' = r.v

\* walk() as the caller sees it: it returns a schema or raises
Walk ==
  /\ pc = "constructed"
  /\ \E order \in Orders : Ends(WalkOf(Self, order))
  /\ walks' = walks + 1
  /\ UNCHANGED <<schema, options, defs, input, document>>

\* the fields of a transformer just constructed
Becomes(t) ==
  /\ heap' = t.h /\ org' = t.org /\ schema' = t.schema /\ options' = t.cfg
  /\ defs' = t.defs /\ refs_stack' = t.stack /\ recursive_refs' = t.rec
  /\ is_strict_compatible' = t.compat /\ error' = t.err
  /\ hlog' = t.hlog /\ tlog' = t.tlog /\ fired' = t.fired

\* the caller hands the returned schema to a new transformer of the same class
\* and options
Construct ==
  /\ pc = "returned"
  /\ walks < MaxWalks
  /\ Becomes(NewTransformer(heap, Identity(heap), result, options.kind,
                            options.strict, options.pid, options.snu))
  /\ input' = [h |-> heap, schema |-> result]
  /\ pc' = "constructed"
  /\ UNCHANGED <<result, walks, document>>

Next == Walk \/ Construct

\* ------------------------------------------------------------------------
\* Documents the transformers are constructed on
\* ------------------------------------------------------------------------
Str == Typed("string")
Null == Typed("null")
RefDesc(name) == SetDescription(Ref(name), "d")

\* a transformer of class kind, constructed on a document with one of roots
\* as its root and one of tables as its $defs
Start(roots, tables, kinds, stricts, pids, snus) ==
  \E r \in roots, d \in tables, kind \in kinds, strict \in stricts,
     pid \in pids, snu \in snus :
     LET h == Load(Document(r, d)) IN
     /\ Constructed(h, Len(h), kind, strict, pid, snu)
     /\ document = [h |-> h, schema |-> Len(h)]
     /\ pc = "constructed" /\ result = 0 /\ walks = 0

DefTables(A, B) ==
  {<<>>} \cup {<<<<"A", a>>>> : a \in A} \cup {<<<<"B", b>>>> : b \in B}
    \cup {<<<<"A", a>>, <<"B", b>>>> : a \in A, b \in B}

\* --- documents with definitions that refer to each other, for the walker with
\*     the identity transform (InlineDefsJsonSchemaTransformer, and the base
\*     class's default prefer_inlined_defs=False)
Other(name) == IF name = "A" THEN "B" ELSE "A"
InlineBodies(name) ==
  {Str, Ref(Other(name)), Array(Ref(name))}
    \cup {Object(<<<<"x", l>>>>) : l \in {Str, Ref("A"), Ref("B")}}
    \cup {AnyOf(<<Object(<<<<"c", Ref(name)>>>>), l>>) : l \in {Str, Ref(Other(name))}}
InlineTargets == {Ref("A"), Ref("B"), Ref("Missing")}
InlineRoots ==
  {Str} \cup InlineTargets
    \cup {Object(<<<<"p", l>>>>) : l \in {Str} \cup InlineTargets}
    \cup {Object(<<<<"p", l>>, <<"q", m>>>>) : l, m \in InlineTargets}
    \cup {Object(<<<<"p", l>>, <<"q", m>>, <<"r", n>>>>) : l, m, n \in {Ref("A"), Ref("B")}}
    \cup {SetTitle(AnyOf(<<Ref("A"), Str>>), "A"), AnyOf(<<Str>>),
          AnyOf(<<Ref("A")>>), Array(EmptyNode), SetAnyOf(Str, <<Str>>)}
InlineTables == DefTables(InlineBodies("A"), InlineBodies("B"))

\* InlineDefsJsonSchemaTransformer (prefer_inlined_defs=True), or a subclass
\* with the identity transform that keeps the base class's defaults
InitInline ==
  \/ Start(InlineRoots, InlineTables, {"inline"}, {"None"}, {TRUE}, {FALSE})
  \/ Start(InlineRoots, InlineTables, {"base"}, {"None"}, {FALSE}, {FALSE})
SpecInline == InitInline /\ [][Next]_vars

\* --- two-member unions and their neighbours, for the walker with
\*     simplify_nullable_unions=True
Empty == EmptyNode
NullableMembers ==
  {Null, Str, Empty, SetDescription(Str, "d"), Object(<<<<"x", Str>>>>), Array(Str)}
NullableUnions ==
  {AnyOf(<<a, b>>) : a, b \in NullableMembers}
    \cup {OneOf(<<a, b>>) : a, b \in NullableMembers}
    \cup {AnyOf(<<Null>>), OneOf(<<Str>>), AnyOf(<<Null, Str, Empty>>),
          SetTitle(AnyOf(<<Null, Str>>), "t"),
          AnyOf(<<Null, AnyOf(<<Null, Str>>)>>),
          SetOneOf(AnyOf(<<Null, Str>>), <<Str, Null>>)}
NullableRoots ==
  NullableUnions \cup {Object(<<<<"p", u>>>>) : u \in NullableUnions}
InitNullable ==
  Start(NullableRoots, {<<>>}, {"base"}, {"None"}, {FALSE}, {TRUE, FALSE})
SpecNullable == InitNullable /\ [][Next]_vars

\* --- documents for OpenAIJsonSchemaTransformer, strict=True and strict=None
StrMin == SetKw(Str, "minLength", "1")
StrMinDesc == SetDescription(SetKw(StrMin, "pattern", "x"), "d")
StrDefault == SetDefault(Str, "v")
StrTitle == SetTitle(Str, "t")
ObjOpen == Object(<<<<"x", Str>>>>)
Closed(obj, required) == SetRequired(SetAddlBool(obj, FALSE), required)
ObjClosed == Closed(ObjOpen, <<"x">>)
\* a node with a type and a union: _handle looks at the type only
TypedUnion == SetAnyOf(Str, <<ObjOpen>>)
StrictLeaves ==
  {Str, StrMin, StrMinDesc, StrDefault, StrTitle, Null, Ref("A"), RefDesc("A"),
   ObjOpen, ObjClosed, TypedUnion}
StrictRoots ==
  StrictLeaves
    \cup {Object(<<<<"p", l>>>>) : l \in StrictLeaves}
    \cup {Closed(Object(<<<<"p", l>>>>), <<"p">>) : l \in StrictLeaves}
    \cup {Array(l) : l \in StrictLeaves}
    \cup {AnyOf(<<l>>) : l \in StrictLeaves}
    \cup {AnyOf(<<l, Null>>) : l \in StrictLeaves}
    \cup {OneOf(<<l, Str>>) : l \in StrictLeaves}
    \cup {Empty, Typed("object"), Ref("B"), Ref("Missing"),
          SetDefault(OneOf(<<Str>>), "v"),
          SetTitle(AnyOf(<<Str, Null>>), "t"),
          SetAddl(ObjOpen, ObjOpen),
          SetPatternProperties(ObjClosed, <<<<"^a", StrMin>>>>),
          SetPrefixItems(Array(Str), <<StrTitle, ObjOpen>>),
          Closed(Object(<<<<"p", Str>>, <<"q", Str>>>>), <<"q", "p">>),
          Closed(Object(<<<<"p", Str>>, <<"q", Str>>>>), <<"p">>),
          Closed(ObjOpen, <<"x", "y">>)}
StrictDefs ==
  {Str, ObjClosed,
   Object(<<<<"next", Ref("A")>>>>),
   Object(<<<<"next", RefDesc("A")>>, <<"other", Ref("B")>>>>),
   Object(<<<<"next", AnyOf(<<Ref("A"), Null>>)>>>>),
   SetTitle(OneOf(<<Ref("A"), Null>>), "t")}
StrictTables == DefTables(StrictDefs, {Str})
InitStrict ==
  Start(StrictRoots, StrictTables, {"openai"}, {"True", "None"}, {FALSE}, {FALSE})
SpecStrict == InitStrict /\ [][Next]_vars

Init == InitInline

Spec == Init /\ [][Next]_vars

\* ------------------------------------------------------------------------
\* Properties
\* ------------------------------------------------------------------------
NoDup(s) == \A i, j \in DOMAIN s : s[i] = s[j] => i = j
IsPrefix(s, t) == Len(s) <= Len(t) /\ SubSeq(t, 1, Len(s)) = s
HasRefKey(n) == Has(n, "$ref") /\ n.ref # ""
RefName(n) == _fast_defs_ref_strip(n.ref)

\* The positions of the document h[root] that the traversal rules of _handle
\* lead to: the root (and, without inlining, every definition), the values of
\* properties / patternProperties and a schema under additionalProperties of
\* an object, prefixItems and a non-empty items of an array, the members of
\* anyOf / oneOf of a node without type and, with inlining, the definition a
\* $ref names in place of the node that carries the $ref.
Below(h, table, pid, i) ==
  LET n == h[i] IN
  IF pid /\ HasRefKey(n)
  THEN IF HasName(table, RefName(n)) THEN {Lookup(table, RefName(n))} ELSE {}
  ELSE IF ~Has(n, "type") THEN Range(n.anyOf) \cup Range(n.oneOf)
  ELSE IF n.type = "object"
       THEN Range(Values(n.properties)) \cup Range(n.addl)
              \cup Range(Values(n.patternProperties))
  ELSE IF n.type = "array"
       THEN Range(n.prefixItems) \cup {c \in Range(n.items) : h[c].k # {}}
  ELSE {}
RECURSIVE Closure(_, _, _, _, _)
Closure(h, table, pid, done, todo) ==
  IF todo = {} THEN done
  ELSE LET next == UNION {Below(h, table, pid, i) : i \in todo} IN
       Closure(h, table, pid, done \cup todo, next \ (done \cup todo))
Positions(h, root, pid) ==
  LET table == IF Has(h[root], "$defs") THEN h[root].defs ELSE <<>> IN
  Closure(h, table, pid, {},
          {root} \cup (IF pid THEN {} ELSE Range(Values(table))))

\* a $ref without a definition, anywhere in the document / at a position
Dangling(h, root, i) ==
  /\ HasRefKey(h[i])
  /\ ~(Has(h[root], "$defs") /\ HasName(h[root].defs, RefName(h[i])))
MissingAnywhere == \E i \in Reach(input.h, input.schema) : Dangling(input.h, input.schema, i)
MissingVisited ==
  \E i \in Positions(input.h, input.schema, options.pid) :
     Dangling(input.h, input.schema, i)

\* C9: every _handle call that returned left the Reference Stack as it found
\* it (it popped exactly what it pushed, on top of what was there), the stack
\* never held a definition name twice, and it is empty when walk() returns.
C9_StackRestored ==
  /\ \A i \in DOMAIN hlog :
       /\ hlog[i].exit = hlog[i].entry
       /\ IsPrefix(hlog[i].entry, hlog[i].seen)
       /\ NoDup(hlog[i].seen)
  /\ (pc = "returned" => refs_stack = <<>>)
\* two sibling calls that each pushed a name on the same non-empty stack
C9_Witness ==
  /\ pc = "returned"
  /\ \E i, j \in DOMAIN hlog :
       /\ i # j
       /\ hlog[i].entry # <<>>
       /\ hlog[i].entry = hlog[j].entry
       /\ Len(hlog[i].seen) > Len(hlog[i].entry)
       /\ Len(hlog[j].seen) > Len(hlog[j].entry)
       /\ hlog[i].seen # hlog[j].seen

NamesIn(h, i) == {RefName(h[j]) : j \in {r \in Reach(h, i) : HasRefKey(h[r])}}
RECURSIVE Chain(_, _, _, _)
Chain(h, table, done, todo) ==
  IF todo = {} THEN done
  ELSE LET next == UNION {NamesIn(h, Lookup(table, n)) :
                            n \in {m \in todo : HasName(table, m)}} IN
       Chain(h, table, done \cup todo, next \ (done \cup todo))
RefersToItself(h, root, name) ==
  /\ Has(h[root], "$defs") /\ HasName(h[root].defs, name)
  /\ name \in Chain(h, h[root].defs, {}, NamesIn(h, Lookup(h[root].defs, name)))
SelfReferring(h, root) ==
  {name \in (IF Has(h[root], "$defs") THEN Range(Names(h[root].defs)) ELSE {}) :
     RefersToItself(h, root, name)}

\* C1: with prefer_inlined_defs, a walk over a schema that has a definition
\* referring to itself terminates (it does not run out of stack), and a
\* definition found recursive is an entry of the returned $defs that some
\* remaining $ref names.
C1_CycleTerminates ==
  options.pid /\ walks = 1 /\ pc # "constructed"
    /\ SelfReferring(document.h, document.schema) # {} =>
    /\ error # "RecursionError"
    /\ (pc = "returned" =>
          \A name \in recursive_refs :
             /\ Has(heap[result], "$defs") /\ HasName(heap[result].defs, name)
             /\ \E i \in Reach(heap, result) :
                   HasRefKey(heap[i]) /\ RefName(heap[i]) = name)

\* C10: with prefer_inlined_defs and a recursive reference detected, every
\* $ref left anywhere in the returned document names a key of its $defs.
C10_ClosedUnderRefs ==
  options.pid /\ walks = 1 /\ pc = "returned" /\ recursive_refs # {} =>
    /\ Has(heap[result], "$defs") /\ HasRefKey(heap[result])
    /\ \A i \in Reach(heap, result) :
          HasRefKey(heap[i]) => HasName(heap[result].defs, RefName(heap[i]))

\* the content of the schema at h[i] as a value: dicts compare without key
\* order, lists with it
RECURSIVE Tree(_, _, _), TreeSeq(_, _, _), TreeMap(_, _, _)
TreeSeq(h, ids, fuel) ==
  IF ids = <<>> THEN <<>>
  ELSE <<Tree(h, Head(ids), fuel)>> \o TreeSeq(h, Tail(ids), fuel)
TreeMap(h, pairs, fuel) ==
  IF pairs = <<>> THEN {}
  ELSE {<<Head(pairs)[1], Tree(h, Head(pairs)[2], fuel)>>}
         \cup TreeMap(h, Tail(pairs), fuel)
Tree(h, i, fuel) ==
  IF fuel = 0 THEN [cut |-> i]
  ELSE [k |-> h[i].k, type |-> h[i].type, ref |-> h[i].ref, title |-> h[i].title,
        description |-> h[i].description, default |-> h[i].default,
        nullable |-> h[i].nullable, required |-> h[i].required, kw |-> h[i].kw,
        addlBool |-> h[i].addlBool,
        properties |-> TreeMap(h, h[i].properties, fuel - 1),
        patternProperties |-> TreeMap(h, h[i].patternProperties, fuel - 1),
        defs |-> TreeMap(h, h[i].defs, fuel - 1),
        addl |-> TreeSeq(h, h[i].addl, fuel - 1),
        items |-> TreeSeq(h, h[i].items, fuel - 1),
        prefixItems |-> TreeSeq(h, h[i].prefixItems, fuel - 1),
        anyOf |-> TreeSeq(h, h[i].anyOf, fuel - 1),
        oneOf |-> TreeSeq(h, h[i].oneOf, fuel - 1)]
Content(h, i) == Tree(h, i, RecursionLimit)

\* the unions of the walked document that C5 speaks of: exactly two members
\* under anyOf or oneOf, exactly one of them {"type": "null"}, the other a
\* schema without unions of its own; NonNull is that other member
Members(n) == IF Has(n, "anyOf") THEN n.anyOf ELSE n.oneOf
Plain(h, i) == \A j \in Reach(h, i) : ~Has(h[j], "anyOf") /\ ~Has(h[j], "oneOf")
NullablePair(h, i) ==
  /\ h[i].k \in {{"anyOf"}, {"oneOf"}}
  /\ Len(Members(h[i])) = 2
  /\ Cardinality({j \in 1..2 : IsNullSchema(h[Members(h[i])[j]])}) = 1
  /\ \A j \in 1..2 : Plain(h, Members(h[i])[j])
NonNull(h, i) ==
  LET m == Members(h[i]) IN IF IsNullSchema(h[m[1]]) THEN m[2] ELSE m[1]

\* C5: with simplify_nullable_unions, what _handle returns for a two-member
\* anyOf / oneOf with exactly one {"type": "null"} member is the other member
\* with nullable: true added, whatever that member is.
C5_NullableCollapse ==
  options.snu /\ walks = 1 /\ pc = "returned" =>
    \A e \in Range(hlog) :
       NullablePair(document.h, org[e.node]) =>
         Content(heap, e.out) =
           [Content(document.h, NonNull(document.h, org[e.node])) EXCEPT
              !.k = @ \cup {"nullable"}, !.nullable = TRUE]

Enforcing == options.kind = "openai" /\ options.strict = "True"
Detecting == options.kind = "openai" /\ options.strict = "None"
IsObject(n) == Has(n, "type") /\ n.type = "object"
ClosedObject(n) ==
  /\ Has(n, "additionalProperties") /\ n.addlBool = "false"
  /\ Has(n, "properties") /\ Has(n, "required")
  /\ n.required = Names(n.properties)

\* every $ref of the document has its definition
WellFormed(h, root) == \A i \in Reach(h, root) : ~Dangling(h, root, i)

\* C2: every object-typed node anywhere in what a strict=True walk returns has
\* additionalProperties false and required equal to the property names in order.
C2_EveryObjectClosed ==
  Enforcing /\ walks = 1 /\ pc = "returned"
    /\ WellFormed(document.h, document.schema) =>
    \A i \in Reach(heap, result) : IsObject(heap[i]) => ClosedObject(heap[i])

\* C3: a strict=True walk over what a strict=True walk returned returns a
\* schema with the same content.
C3_EnforceIdempotent ==
  Enforcing /\ walks = 2 /\ pc = "returned"
    /\ WellFormed(document.h, document.schema) =>
    Content(heap, result) = Content(input.h, input.schema)

\* the documents C7 speaks of: the root is {"$ref": "#/$defs/X"} and nothing
\* else, and X is an object with a property that is {"$ref": "#/$defs/X"}
RootTarget == Lookup(document.h[document.schema].defs, RefName(document.h[document.schema]))
RootSelfReference ==
  LET root == document.h[document.schema] IN
  /\ root.k = {"$ref", "$defs"}
  /\ HasName(root.defs, RefName(root))
  /\ IsObject(document.h[RootTarget])
  /\ \E c \in Range(Values(document.h[RootTarget].properties)) :
        document.h[c] = SetRef(EmptyNode, root.ref)
UnpackedRoot ==
  /\ ~Has(heap[result], "$ref")
  /\ IsObject(heap[result])
  /\ Names(heap[result].properties) = Names(document.h[RootTarget].properties)
  /\ \A e \in Range(hlog) : ~(Has(heap[e.out], "$ref") /\ <<heap[e.out].ref>> = options.root_ref)
  /\ \E i \in Range(Values(heap[result].properties)) : heap[i] = SetRef(EmptyNode, "#")

\* C7 as stated: for such a root the strict=True walk rewrites the inner
\* references to the root's target into {"$ref": "#"} and returns a root with
\* the definition's keys, without $ref and without $defs.
C7_NoOuterRefNoOuterDefs ==
  Enforcing /\ walks = 1 /\ pc = "returned" /\ RootSelfReference =>
    UnpackedRoot /\ ~Has(heap[result], "$defs")
\* C7 amended: for such a root the strict=True walk returns a root with the
\* definition's keys and without $ref, no schema it handled still names the
\* root's target, and the root keeps $defs with an entry for every definition
\* of the document.
C7_RootSelfReference ==
  Enforcing /\ walks = 1 /\ pc = "returned" /\ RootSelfReference =>
    /\ UnpackedRoot
    /\ Has(heap[result], "$defs")
    /\ Names(heap[result].defs) = Names(document.h[document.schema].defs)
C7_Witness ==
  /\ Enforcing /\ walks = 1 /\ pc = "returned" /\ RootSelfReference
  /\ Len(heap[result].defs) = 2 /\ ClosedObject(heap[result])

\* what a strict=True walk over the first document fires: the rules of
\* transform that rewrite some node (1..6), and 7 when it meets an object
\* without the shape that strict=None tests for
EnforceFired ==
  LET t == NewTransformer(document.h, Identity(document.h), document.schema,
                          "openai", "True", FALSE, FALSE)
  IN WalkOf(t, <<>>).st.fired

\* C6 as stated: after a strict=None walk is_strict_compatible is false if and
\* only if a strict=True walk over the same schema applies one of the rules
\* 1-6 to some node.
C6_FlagIffAnyRule ==
  Detecting /\ walks = 1 /\ pc = "returned" =>
    (~is_strict_compatible <=> EnforceFired \cap (1..6) # {})
\* C6 amended: after a strict=None walk is_strict_compatible is false if and
\* only if a strict=True walk over the same schema removes a default (rule 2),
\* removes an unsupported keyword (rule 4), converts a oneOf (rule 5) or meets
\* an object that lacks additionalProperties false, properties, required or a
\* property name in required (7); rules 1 and 3 and a rewrite of required
\* alone leave the flag true.
C6_FlagIffDetectedRule ==
  Detecting /\ walks = 1 /\ pc = "returned" =>
    (~is_strict_compatible <=> EnforceFired \cap {2, 4, 5, 7} # {})
\* a schema the strict=True walk rewrites (title, order of required) and the
\* strict=None walk finds compatible, and one it finds incompatible
C6_Witness ==
  /\ Detecting /\ walks = 1 /\ pc = "returned"
  /\ \/ is_strict_compatible /\ {1, 6} \subseteq EnforceFired
     \/ ~is_strict_compatible /\ 2 \in EnforceFired /\ 7 \notin EnforceFired

\* the nodes of the first document below its root, $defs apart
SubSchemas ==
  Reach([document.h EXCEPT ![document.schema] = Del(@, "$defs")], document.schema)
TimesTransformed(i) == Cardinality({j \in DOMAIN tlog : org[tlog[j]] = i})

====
